---- MODULE Spec2Model ----
(***************************************************************************)
(* Model of the Sequence runner of src/lib/sequence.ts.                    *)
(*                                                                         *)
(* A Sequence holds an append-only list of step callbacks (steps) and a    *)
(* label -> index map (stepsLabelIndexMap).  run() calls runStep(0), and   *)
(* runStep recurses: once from inside its try block (the step returned and *)
(* a next index exists) and once from inside its catch block (the step     *)
(* threw a SequenceJumpError).  The call chain of pending runStep frames   *)
(* is the variable stack; the value a finished frame hands to its caller   *)
(* is the variable completion.                                             *)
(*                                                                         *)
(* A value of type `number | null` or `number | undefined` is modelled as  *)
(* a set of at most one integer: {} is null/undefined, {n} is n.           *)
(***************************************************************************)
EXTENDS Integers, Sequences, FiniteSets, TLC

VARIABLES steps, stepsLabelIndexMap, stepOutcome, labelArgs, status, stack,
          completion, calls, error, signal,
          callbackArgs, context, heap, override, runContext, result,
          attemptArgs, attemptOutcome, promise, other,
          ran, onceValue, fnCalls, returned, flight, shareCalls

\* the shared context: this.context, the state of the context objects,
\* options.context and the `context` constant of the current run, and the
\* value run() resolved with
contextVars == <<context, heap, override, runContext, result>>

\* attempt / attemptAsync (src/lib/attempt.ts): the call made, what the call
\* itself did, and the promise attemptAsync returned
attemptVars == <<attemptArgs, attemptOutcome, promise>>

\* once and share (src/lib/utils.ts): `ran` and `value` of the closure made
\* by once(fn), the arguments fn was invoked with, what the calls of the
\* closure returned; `flight` of the closure made by share(fn) and its calls
utilVars == <<ran, onceValue, fnCalls, returned, flight, shareCalls>>

vars == <<steps, stepsLabelIndexMap, stepOutcome, labelArgs, status, stack,
          completion, calls, error, signal, callbackArgs, contextVars, attemptVars,
          other, utilVars>>

(* ----------------------------- bounds --------------------------------- *)

MaxSteps == 3

MaxScenarioSteps == 5

MaxCalls == 6

\* a run starts only while its context holds at most this many writes
MaxMutations == 2

\* steps of a sequence that navigates by index and by label
MaxMixedSteps == 2

\* calls of the function made by once(fn)
MaxOnceCalls == 4

\* calls of the function made by share(fn)
MaxShareCalls == 3

\* how many inner promises a promise adopts before it settles
MaxNesting == 2

Labels == {"start", "stop"}

(* ------------------------- errors and signals ------------------------- *)

NoError == [name |-> "none", message |-> "", index |-> 0, label |-> "", to |-> {}]

SequenceStopError ==
  [name |-> "SequenceStopError", message |-> "Tried to call stop() outside Sequence scope",
   index |-> 0, label |-> "", to |-> {}]

SequenceJumpError(to) ==
  [name |-> "SequenceJumpError", message |-> "Tried to call jump() outside Sequence scope",
   index |-> 0, label |-> "", to |-> to]

NoStepAtIndexError(index) ==
  [name |-> "Error", message |-> "No step function found at index", index |-> index,
   label |-> "", to |-> {}]

NoStepWithLabelError(label) ==
  [name |-> "Error", message |-> "No step function found with label", index |-> 0,
   label |-> label, to |-> {}]

StepError(index) ==
  [name |-> "Error", message |-> "index.toString()", index |-> index, label |-> "", to |-> {}]

(* ------------------------------ callbacks ----------------------------- *)
(* A step callback is modelled by what it does when invoked: it returns,   *)
(* throws Error(context.index.toString()), or calls one navigation         *)
(* operation of its stepContext.                                           *)

Callback(op, to, label) == [op |-> op, to |-> to, label |-> label]

Returns == Callback("return", 0, "")
Throws == Callback("throw", 0, "")
CallsStop == Callback("stop", 0, "")
CallsSkip == Callback("skip", 0, "")
CallsBack == Callback("back", 0, "")
CallsJump(to) == Callback("jump", to, "")
CallsJumpLabel(label) == Callback("jumpLabel", 0, label)
\* calls abortController.abort() and returns (test "aborts with AbortController")
Aborts == Callback("abort", 0, "")

\* jump(n) for -1, for every index a sequence can have, and for one number
\* on either side of them
NavCallbacks ==
  {Returns, Throws, CallsStop, CallsSkip, CallsBack} \cup {CallsJump(n) : n \in -2..MaxSteps}

LabelCallbacks ==
  {Returns, Throws, CallsStop} \cup {CallsJumpLabel(l) : l \in Labels}

ScenarioCallbacks == {CallsSkip, CallsJump(-1), Throws, CallsStop, CallsBack}

CancelCallbacks == {Returns, Throws, Aborts, CallsStop, CallsSkip, CallsBack}

\* every navigation operation, with jump targets inside and just outside
\* the sequence
MixedCallbacks ==
  {Returns, CallsStop, CallsSkip, CallsBack}
    \cup {CallsJump(n) : n \in -1..MaxMixedSteps}
    \cup {CallsJumpLabel(l) : l \in Labels}

ContextCallbacks == {Returns, Throws, CallsStop, CallsSkip, CallsBack}

Signals == {"none", "live", "aborted"}

(* ------------------------------ completions --------------------------- *)

Pending == [type |-> "none", error |-> NoError]
Returned == [type |-> "return", error |-> NoError]
Threw(e) == [type |-> "throw", error |-> e]

Frame(index, pc) == [index |-> index, pc |-> pc]

(* --------------------------- shared context --------------------------- *)
(* A context is an object; the model names the object given to the         *)
(* constructor "ctor" and the one given to run() "override".  A step that  *)
(* receives a context mutates it (test "allows passing mutable context":   *)
(* context.current = index); heap keeps, per object, the indices written   *)
(* to it in order.  A value `Context | undefined` is a set of at most one  *)
(* object.                                                                 *)

Objects == {"ctor", "override"}

(* ----------------------------- attempt data --------------------------- *)
(* Values handed around by attempt and attemptAsync.  A value is either a  *)
(* plain datum or a native promise; a promise either fulfils with a datum  *)
(* or rejects with an error, after having adopted `depth` inner promises   *)
(* (new Promise((resolve) => resolve(new Promise(...))) has depth 1).      *)

Data == {0, 1}

Err(name, cause) == [name |-> name, cause |-> cause]
NoErr == Err("", "")
ThrownErrors == {Err("Error", ""), Err("TypeError", "")}

NoValue == [kind |-> "none", settles |-> "", data |-> 0, error |-> NoErr, depth |-> 0]
Plain(data) == [kind |-> "value", settles |-> "", data |-> data, error |-> NoErr, depth |-> 0]
Fulfils(data, depth) ==
  [kind |-> "promise", settles |-> "fulfil", data |-> data, error |-> NoErr, depth |-> depth]
Rejects(e, depth) ==
  [kind |-> "promise", settles |-> "reject", data |-> 0, error |-> e, depth |-> depth]

\* callbacks: () => value, () => { throw e }
Thunk(does, value, e) == [does |-> does, value |-> value, error |-> e]
ReturnsValue(value) == Thunk("return", value, NoErr)
ThrowsError(e) == Thunk("throw", NoValue, e)
NoThunk == Thunk("none", NoValue, NoErr)

AttemptValues ==
  {Plain(d) : d \in Data}
    \cup {Fulfils(d, n) : d \in Data, n \in 0..MaxNesting}
    \cup {Rejects(e, n) : e \in ThrownErrors, n \in 0..MaxNesting}

Thunks ==
  {ReturnsValue(v) : v \in AttemptValues} \cup {ThrowsError(e) : e \in ThrownErrors}

\* narrow functions: the default, (error) => new SyntaxError("...", { cause:
\* error }) of the documentation, and one that throws
Narrows == {"default", "syntax", "throws"}

NoArgs == [fn |-> "none", callback |-> NoThunk, narrow |-> "none"]

\* results: AttemptSuccess, AttemptError
NoAttempt == [success |-> FALSE, data |-> NoValue, error |-> NoErr, made |-> FALSE]

\* what a call did: returned an Attempt / a promise, or threw
NoOutcome == [type |-> "none", attempt |-> NoAttempt, error |-> NoErr]

\* the promise returned by resolveAsync
NoPromise ==
  [state |-> "none", on |-> NoValue, narrow |-> "none", attempt |-> NoAttempt, error |-> NoErr]

(* ------------------------------ two runs ------------------------------ *)
(* status, stack, completion, calls, error, signal, override, runContext   *)
(* and result belong to one call of run().  A second call of run() on the  *)
(* same Sequence has its own; `other` holds those of the call that is not  *)
(* being followed at the moment.                                           *)

\* a call of run() that has not been made
NoRun ==
  [status |-> "idle", stack |-> << >>, completion |-> Pending, calls |-> << >>,
   error |-> NoError, signal |-> "none", override |-> {}, runContext |-> {},
   result |-> {}]

(* ------------------------------- Init --------------------------------- *)

Init ==
  /\ steps = << >>
  /\ stepsLabelIndexMap = [l \in Labels |-> {}]
  /\ stepOutcome = "none"
  /\ labelArgs = << >>
  /\ status = "idle"
  /\ stack = << >>
  /\ completion = Pending
  /\ calls = << >>
  /\ error = NoError
  /\ signal = "none"
  /\ callbackArgs = << >>
  /\ context = {}
  /\ heap = [o \in Objects |-> << >>]
  /\ override = {}
  /\ runContext = {}
  /\ result = {}
  /\ attemptArgs = NoArgs
  /\ attemptOutcome = NoOutcome
  /\ promise = NoPromise
  /\ other = NoRun
  /\ ran = FALSE
  /\ onceValue = {}
  /\ fnCalls = << >>
  /\ returned = << >>
  /\ flight = {}
  /\ shareCalls = << >>

(* ------------------------------ registry ------------------------------ *)
(* Sequence.step: the labelled overload pushes the callback first, then    *)
(* throws if the label is taken, then records label -> length - 1.         *)
(* stepOutcome records whether the call returned `this` or threw, and      *)
(* labelArgs the label argument of every call ({} for the unlabelled       *)
(* overload).  Steps are registered before the first run (spec 4.1).       *)

\* mutant: the callback is put in front of the list
StepUnlabelledUnshifts(callback) ==
  /\ status = "idle"
  /\ steps' = <<callback>> \o steps
  /\ stepOutcome' = "returned"
  /\ labelArgs' = Append(labelArgs, {})
  /\ callbackArgs' = Append(callbackArgs, callback)
  /\ UNCHANGED <<utilVars, other, stepsLabelIndexMap, status, stack, completion, calls, error, signal,
                 contextVars, attemptVars>>

StepUnlabelled(callback) ==
  /\ status = "idle"
  /\ steps' = Append(steps, callback)
  /\ stepOutcome' = "returned"
  /\ labelArgs' = Append(labelArgs, {})
  /\ callbackArgs' = Append(callbackArgs, callback)
  /\ UNCHANGED <<utilVars, other, stepsLabelIndexMap, status, stack, completion, calls, error, signal,
                 contextVars, attemptVars>>

\* mutant: the label is recorded with the length, not the index
StepLabelledOffByOne(label, callback) ==
  /\ status = "idle"
  /\ steps' = Append(steps, callback)
  /\ labelArgs' = Append(labelArgs, {label})
  /\ IF stepsLabelIndexMap[label] # {}
       THEN /\ stepOutcome' = "threw"
            /\ UNCHANGED stepsLabelIndexMap
       ELSE /\ stepOutcome' = "returned"
            /\ stepsLabelIndexMap' =
                 [stepsLabelIndexMap EXCEPT ![label] = {Len(steps')}]
  /\ callbackArgs' = Append(callbackArgs, callback)
  /\ UNCHANGED <<utilVars, other, status, stack, completion, calls, error, signal, contextVars, attemptVars>>

\* mutant: a label that is taken is silently given to the new step
StepLabelledOverwrites(label, callback) ==
  /\ status = "idle"
  /\ steps' = Append(steps, callback)
  /\ labelArgs' = Append(labelArgs, {label})
  /\ stepOutcome' = "returned"
  /\ stepsLabelIndexMap' =
       [stepsLabelIndexMap EXCEPT ![label] = {Len(steps') - 1}]
  /\ callbackArgs' = Append(callbackArgs, callback)
  /\ UNCHANGED <<utilVars, other, status, stack, completion, calls, error, signal, contextVars, attemptVars>>

StepLabelled(label, callback) ==
  /\ status = "idle"
  /\ steps' = Append(steps, callback)
  /\ labelArgs' = Append(labelArgs, {label})
  /\ IF stepsLabelIndexMap[label] # {}
       THEN /\ stepOutcome' = "threw"
            /\ UNCHANGED stepsLabelIndexMap
       ELSE /\ stepOutcome' = "returned"
            /\ stepsLabelIndexMap' =
                 [stepsLabelIndexMap EXCEPT ![label] = {Len(steps') - 1}]
  /\ callbackArgs' = Append(callbackArgs, callback)
  /\ UNCHANGED <<utilVars, other, status, stack, completion, calls, error, signal, contextVars, attemptVars>>

(* ------------------------------ runStep ------------------------------- *)

\* this.steps[index]: {} when there is no element at that index
StepFunction(index) ==
  IF index \in 0..(Len(steps) - 1) THEN {steps[index + 1]} ELSE {}

\* mutant: the end of the list is taken one step early
NextIndexEndsEarly(index) ==
  IF index + 2 >= Len(steps) THEN {} ELSE {index + 1}

\* const next = index + 1 === this.steps.length ? null : index + 1
NextIndex(index) ==
  IF index + 1 = Len(steps) THEN {} ELSE {index + 1}

\* mutant: -1 resolves to the length instead of the last index
JumpIndexPastEnd(to) ==
  IF to = -1 THEN Len(steps) ELSE to

\* the numeric branch of stepContext.jump
JumpIndex(to) ==
  IF to = -1 THEN Len(steps) - 1 ELSE to

\* mutant: an unknown label is not checked, the jump carries no index
JumpLabelUnchecked(label) == SequenceJumpError(stepsLabelIndexMap[label])

\* the string branch of stepContext.jump: the error it throws
JumpLabel(label) ==
  IF stepsLabelIndexMap[label] = {}
    THEN NoStepWithLabelError(label)
    ELSE SequenceJumpError(stepsLabelIndexMap[label])

\* stepContext.stop, back, skip and jump of the step at index: what they throw
stop == SequenceStopError

\* mutant: back() from the first step wraps around to the last step
backWraps(index) == SequenceJumpError({JumpIndex(index - 1)})

\* mutant: back() runs the calling step again
backToSelf(index) == SequenceJumpError({index})

back(index) == SequenceJumpError({index - 1})

\* mutant: skip() ignores the end of the list
skipPastEnd(index) == SequenceJumpError({index + 1})

skip(index) == SequenceJumpError(NextIndex(index))

\* mutant: a number outside the list is clamped to the last index
jumpClamped(to) ==
  SequenceJumpError({IF JumpIndex(to) \in 0..(Len(steps) - 1)
                       THEN JumpIndex(to) ELSE Len(steps) - 1})

jump(to) == SequenceJumpError({JumpIndex(to)})

NavigationOps == {"stop", "back", "skip", "jump", "jumpLabel"}

\* mutant: the navigation operations return to their caller
NavigateReturns(index, callback) == Returned

\* The call of a navigation operation inside the step at index: every one
\* of them throws (their return type is `never`).
Navigate(index, callback) ==
  CASE callback.op = "stop" -> Threw(stop)
    [] callback.op = "back" -> Threw(back(index))
    [] callback.op = "skip" -> Threw(skip(index))
    [] callback.op = "jump" -> Threw(jump(callback.to))
    [] callback.op = "jumpLabel" -> Threw(JumpLabel(callback.label))

\* How `await stepFunction(stepContext)` settles for the step at index.  A
\* step that navigates is written as in the tests: the call is followed by
\* `throw Error(context.index.toString())`, which runs if the call returns.
StepSettles(index, callback) ==
  CASE callback.op = "return" -> Returned
    [] callback.op = "abort" -> Returned
    [] callback.op = "throw" -> Threw(StepError(index))
    [] callback.op \in NavigationOps ->
         IF Navigate(index, callback).type = "throw"
           THEN Navigate(index, callback)
           ELSE Threw(StepError(index))

\* What a runStep frame does next: return, throw e, or call runStep(index)
\* from its try block (pc "try") or from its catch block (pc "catch").
DoReturn == [do |-> "return", error |-> NoError, index |-> 0, pc |-> ""]
DoThrow(e) == [do |-> "throw", error |-> e, index |-> 0, pc |-> ""]
DoCall(index, pc) == [do |-> "call", error |-> NoError, index |-> index, pc |-> pc]

\* mutant: the catch block does not recognise SequenceStopError
CatchWithoutStop(e) ==
  IF e.name = "SequenceJumpError"
    THEN IF e.to = {} THEN DoReturn
         ELSE DoCall(CHOOSE i \in e.to : TRUE, "catch")
    ELSE DoThrow(e)

\* the catch block of runStep
Catch(e) ==
  IF e.name = "SequenceStopError" THEN DoReturn
  ELSE IF e.name = "SequenceJumpError"
    THEN IF e.to = {} THEN DoReturn
         ELSE DoCall(CHOOSE i \in e.to : TRUE, "catch")
    ELSE DoThrow(e)

\* the try block after `await stepFunction(stepContext)` settled with c
AfterStep(index, c) ==
  IF c.type = "return"
    THEN IF NextIndex(index) # {}
           THEN DoCall(CHOOSE i \in NextIndex(index) : TRUE, "try")
           ELSE DoReturn
    ELSE Catch(c.error)

\* mutant: a failure of the inner runStep is dropped
AfterInnerSwallows(pc, c) == DoReturn

\* a frame suspended in an inner `await this.runStep(...)` receives c
AfterInner(pc, c) ==
  IF pc = "try"
    THEN IF c.type = "return" THEN DoReturn ELSE Catch(c.error)
    ELSE IF c.type = "return" THEN DoReturn ELSE DoThrow(c.error)

\* mutant: the step is handed a copy of the context, its writes are lost
InvokeOnCopy(ctx, index) == heap

\* the heap after the step at index was invoked with stepContext.context =
\* ctx: the step writes its index to the object it was given
Invoke(ctx, index) ==
  [o \in Objects |->
     IF o \in ctx THEN Append(heap[o], index) ELSE heap[o]]

\* The frame on top of the stack (index, rest below it) carries out d.
\* A call runs runStep's synchronous prefix: look the step up, throw if it
\* is missing, otherwise invoke it.
Carry(rest, index, d) ==
  CASE d.do = "return" ->
         /\ stack' = rest
         /\ completion' = Returned
         /\ UNCHANGED <<calls, heap>>
    [] d.do = "throw" ->
         /\ stack' = rest
         /\ completion' = Threw(d.error)
         /\ UNCHANGED <<calls, heap>>
    [] d.do = "call" ->
         IF StepFunction(d.index) = {}
           THEN /\ stack' = Append(rest, Frame(index, d.pc))
                /\ completion' = Threw(NoStepAtIndexError(d.index))
                /\ UNCHANGED <<calls, heap>>
           ELSE /\ stack' = Append(Append(rest, Frame(index, d.pc)), Frame(d.index, "step"))
                /\ completion' = Pending
                /\ calls' = Append(calls, d.index)
                /\ heap' = Invoke(runContext, d.index)

Top == stack[Len(stack)]

\* mutant: the frame that awaited the step stays behind, still awaiting it
RestKeepsStep == stack

Rest == SubSeq(stack, 1, Len(stack) - 1)

\* mutant: options.context is ignored
RunContextIgnoresOptions(ctx) == context

\* const context = options.context ?? this.context
RunContext(ctx) ==
  IF ctx # {} THEN ctx ELSE context

\* mutant: a sequence without steps is at its natural end
RunWithEmptyEnds(sig, ctx) ==
  /\ status # "running"
  /\ status' = "running"
  /\ signal' = sig
  /\ error' = NoError
  /\ override' = ctx
  /\ runContext' = RunContext(ctx)
  /\ result' = {}
  /\ IF StepFunction(0) = {}
       THEN /\ stack' = << >>
            /\ completion' = Returned
            /\ calls' = << >>
            /\ UNCHANGED heap
       ELSE /\ stack' = <<Frame(0, "step")>>
            /\ completion' = Pending
            /\ calls' = <<0>>
            /\ heap' = Invoke(runContext', 0)
  /\ UNCHANGED <<utilVars, other, steps, stepsLabelIndexMap, stepOutcome, labelArgs, callbackArgs,
                 context, attemptVars>>

\* mutant: a run takes up the sequence where the run before it left it
RunWithResumes(sig, ctx) ==
  LET first == IF calls # << >> THEN calls[Len(calls)] ELSE 0 IN
  /\ status # "running"
  /\ status' = "running"
  /\ signal' = sig
  /\ error' = NoError
  /\ override' = ctx
  /\ runContext' = RunContext(ctx)
  /\ result' = {}
  /\ IF StepFunction(first) = {}
       THEN /\ stack' = << >>
            /\ completion' = Threw(NoStepAtIndexError(first))
            /\ calls' = << >>
            /\ UNCHANGED heap
       ELSE /\ stack' = <<Frame(first, "step")>>
            /\ completion' = Pending
            /\ calls' = <<first>>
            /\ heap' = Invoke(runContext', first)
  /\ UNCHANGED <<utilVars, other, steps, stepsLabelIndexMap, stepOutcome, labelArgs, callbackArgs,
                 context, attemptVars>>

\* Sequence.run({ signal: sig, context: ctx }) up to its first suspension:
\* runStep(0, context)
RunWith(sig, ctx) ==
  /\ status # "running"
  /\ status' = "running"
  /\ signal' = sig
  /\ error' = NoError
  /\ override' = ctx
  /\ runContext' = RunContext(ctx)
  /\ result' = {}
  /\ IF StepFunction(0) = {}
       THEN /\ stack' = << >>
            /\ completion' = Threw(NoStepAtIndexError(0))
            /\ calls' = << >>
            /\ UNCHANGED heap
       ELSE /\ stack' = <<Frame(0, "step")>>
            /\ completion' = Pending
            /\ calls' = <<0>>
            /\ heap' = Invoke(runContext', 0)
  /\ UNCHANGED <<utilVars, other, steps, stepsLabelIndexMap, stepOutcome, labelArgs, callbackArgs,
                 context, attemptVars>>

\* run({ signal }) and run()
Run(sig) == RunWith(sig, {})

\* The step awaited by the top frame settles.  A step that called abort()
\* on the controller whose signal the run was given leaves it aborted.
Settle ==
  /\ status = "running"
  /\ stack # << >>
  /\ Top.pc = "step"
  /\ completion.type = "none"
  /\ Carry(Rest, Top.index,
           AfterStep(Top.index, StepSettles(Top.index, steps[Top.index + 1])))
  /\ Len(calls') <= MaxCalls
  /\ signal' = IF steps[Top.index + 1].op = "abort" /\ signal = "live"
                 THEN "aborted" ELSE signal
  /\ UNCHANGED <<utilVars, other, steps, stepsLabelIndexMap, stepOutcome, labelArgs, status, error,
                 callbackArgs, context, override, runContext, result, attemptVars>>

\* an inner runStep finished; the frame that awaits it resumes
Unwind ==
  /\ status = "running"
  /\ stack # << >>
  /\ Top.pc # "step"
  /\ completion.type # "none"
  /\ Carry(Rest, Top.index, AfterInner(Top.pc, completion))
  /\ Len(calls') <= MaxCalls
  /\ UNCHANGED <<utilVars, other, steps, stepsLabelIndexMap, stepOutcome, labelArgs, status, error, signal,
                 callbackArgs, context, override, runContext, result, attemptVars>>

\* run's own `await this.runStep(0, context)` finished: the promise settles,
\* with `context` when it resolves
Finish ==
  /\ status = "running"
  /\ stack = << >>
  /\ completion.type # "none"
  /\ status' = IF completion.type = "return" THEN "resolved" ELSE "rejected"
  /\ error' = completion.error
  /\ completion' = Pending
  /\ result' = IF completion.type = "return" THEN runContext ELSE {}
  /\ UNCHANGED <<utilVars, other, steps, stepsLabelIndexMap, stepOutcome, labelArgs, stack, calls, signal,
                 callbackArgs, context, heap, override, runContext, attemptVars>>

\* everything that belongs to the call of run() being followed
ThisRun ==
  [status |-> status, stack |-> stack, completion |-> completion, calls |-> calls,
   error |-> error, signal |-> signal, override |-> override,
   runContext |-> runContext, result |-> result]

\* mutant: the call chain belongs to the Sequence, the two runs share it
SwitchSharesPosition ==
  /\ other' = ThisRun
  /\ status' = other.status
  /\ error' = other.error
  /\ signal' = other.signal
  /\ override' = other.override
  /\ runContext' = other.runContext
  /\ result' = other.result
  /\ UNCHANGED <<utilVars, steps, stepsLabelIndexMap, stepOutcome, labelArgs, callbackArgs,
                 stack, completion, calls, context, heap, attemptVars>>

\* Every `await` of run and runStep is a point where the event loop may go
\* on with the other call of run(): from here on the model follows that one.
Switch ==
  /\ other' = ThisRun
  /\ status' = other.status
  /\ stack' = other.stack
  /\ completion' = other.completion
  /\ calls' = other.calls
  /\ error' = other.error
  /\ signal' = other.signal
  /\ override' = other.override
  /\ runContext' = other.runContext
  /\ result' = other.result
  /\ UNCHANGED <<utilVars, steps, stepsLabelIndexMap, stepOutcome, labelArgs, callbackArgs,
                 context, heap, attemptVars>>

(* ------------------------------ attempt ------------------------------- *)

success(data) == [success |-> TRUE, data |-> data, error |-> NoErr, made |-> TRUE]

fail(e) == [success |-> FALSE, data |-> NoValue, error |-> e, made |-> TRUE]

defaultNarrow(e) == e

\* calling narrow(error): the value it returns or the error it throws
Narrow(narrow, e) ==
  CASE narrow = "default" -> [type |-> "return", error |-> defaultNarrow(e)]
    [] narrow = "syntax" -> [type |-> "return", error |-> Err("SyntaxError", e.name)]
    [] narrow = "throws" -> [type |-> "throw", error |-> Err("NarrowError", e.name)]

AttemptReturned(a) == [type |-> "return", attempt |-> a, error |-> NoErr]
AttemptThrew(e) == [type |-> "throw", attempt |-> NoAttempt, error |-> e]

\* `return fail(narrow(error))`
FailNarrowed(narrow, e) ==
  IF Narrow(narrow, e).type = "return"
    THEN AttemptReturned(fail(Narrow(narrow, e).error))
    ELSE AttemptThrew(Narrow(narrow, e).error)

\* mutant: the caught error is returned without narrowing
attemptUnnarrowed(callback, narrow) ==
  IF callback.does = "return"
    THEN AttemptReturned(success(callback.value))
    ELSE AttemptReturned(fail(callback.error))

\* attempt(callback, narrow): what the call does
attempt(callback, narrow) ==
  IF callback.does = "return"
    THEN AttemptReturned(success(callback.value))
    ELSE FailNarrowed(narrow, callback.error)

PromiseFulfilled(a) ==
  [state |-> "fulfilled", on |-> NoValue, narrow |-> "none", attempt |-> a, error |-> NoErr]
PromiseRejected(e) ==
  [state |-> "rejected", on |-> NoValue, narrow |-> "none", attempt |-> NoAttempt, error |-> e]
PromisePending(on, narrow) ==
  [state |-> "pending", on |-> on, narrow |-> narrow, attempt |-> NoAttempt, error |-> NoErr]

\* resolveAsync(maybePromise, narrow): the promise it returns
resolveAsync(maybePromise, narrow) ==
  IF maybePromise.kind = "promise"
    THEN PromisePending(maybePromise, narrow)
    ELSE PromiseFulfilled(success(maybePromise))

CallAttempt(callback, narrow) ==
  /\ promise.state # "pending"
  /\ attemptArgs' = [fn |-> "attempt", callback |-> callback, narrow |-> narrow]
  /\ attemptOutcome' = attempt(callback, narrow)
  /\ promise' = NoPromise
  /\ UNCHANGED <<utilVars, other, steps, stepsLabelIndexMap, stepOutcome, labelArgs, status, stack,
                 completion, calls, error, signal, callbackArgs, contextVars>>

\* attemptAsync(callback, narrow): callback() is evaluated as the argument of
\* resolveAsync, outside any try or promise
CallAttemptAsync(callback, narrow) ==
  /\ promise.state # "pending"
  /\ attemptArgs' = [fn |-> "attemptAsync", callback |-> callback, narrow |-> narrow]
  /\ IF callback.does = "throw"
       THEN /\ attemptOutcome' = AttemptThrew(callback.error)
            /\ promise' = NoPromise
       ELSE /\ attemptOutcome' = AttemptReturned(NoAttempt)
            /\ promise' = resolveAsync(callback.value, narrow)
  /\ UNCHANGED <<utilVars, other, steps, stepsLabelIndexMap, stepOutcome, labelArgs, status, stack,
                 completion, calls, error, signal, callbackArgs, contextVars>>

\* the awaited promise was resolved with another promise and adopts it
Adopt ==
  /\ promise.state = "pending"
  /\ promise.on.depth > 0
  /\ promise' = [promise EXCEPT !.on.depth = @ - 1]
  /\ UNCHANGED <<utilVars, other, steps, stepsLabelIndexMap, stepOutcome, labelArgs, status, stack,
                 completion, calls, error, signal, callbackArgs, contextVars,
                 attemptArgs, attemptOutcome>>

\* the awaited promise settles: .then((data) => resolveAsync(data)) on
\* fulfilment, .catch((error) => fail(narrow(error))) on rejection
PromiseSettles ==
  /\ promise.state = "pending"
  /\ promise.on.depth = 0
  /\ promise' =
       IF promise.on.settles = "fulfil"
         THEN resolveAsync(Plain(promise.on.data), "default")
         ELSE IF FailNarrowed(promise.narrow, promise.on.error).type = "return"
                THEN PromiseFulfilled(FailNarrowed(promise.narrow, promise.on.error).attempt)
                ELSE PromiseRejected(FailNarrowed(promise.narrow, promise.on.error).error)
  /\ UNCHANGED <<utilVars, other, steps, stepsLabelIndexMap, stepOutcome, labelArgs, status, stack,
                 completion, calls, error, signal, callbackArgs, contextVars,
                 attemptArgs, attemptOutcome>>

(* ------------------------------- once --------------------------------- *)
(* f = once(fn).  The model's fn is (arg) => { if (arg === 0) throw ...;   *)
(* return arg }: its result depends on its argument, and one argument      *)
(* makes it throw.  A value `U | undefined` is a set of at most one value. *)

OnceArgs == {0, 1, 2}

\* fn(arg): it returns a value or throws
Fn(arg) ==
  IF arg = 0
    THEN [type |-> "throw", value |-> {}]
    ELSE [type |-> "return", value |-> {arg}]

\* mutant: `ran` is set once fn has returned, not before it is called
OnceCallRetries(arg) ==
  /\ IF ~ran
       THEN /\ ran' = (Fn(arg).type = "return")
            /\ fnCalls' = Append(fnCalls, arg)
            /\ onceValue' = IF Fn(arg).type = "return" THEN Fn(arg).value ELSE onceValue
            /\ returned' =
                 Append(returned,
                        [arg |-> arg, type |-> Fn(arg).type,
                         value |-> IF Fn(arg).type = "return" THEN onceValue' ELSE {}])
       ELSE /\ returned' = Append(returned, [arg |-> arg, type |-> "return", value |-> onceValue])
            /\ UNCHANGED <<ran, onceValue, fnCalls>>
  /\ UNCHANGED <<steps, stepsLabelIndexMap, stepOutcome, labelArgs, status, stack,
                 completion, calls, error, signal, callbackArgs, contextVars,
                 attemptVars, other, flight, shareCalls>>

\* f(arg): `if (!ran) { ran = true; value = fn(...args) }; return value`.
\* When fn throws, the assignment to value does not happen and the call of f
\* throws.
OnceCall(arg) ==
  /\ IF ~ran
       THEN /\ ran' = TRUE
            /\ fnCalls' = Append(fnCalls, arg)
            /\ onceValue' = IF Fn(arg).type = "return" THEN Fn(arg).value ELSE onceValue
            /\ returned' =
                 Append(returned,
                        [arg |-> arg, type |-> Fn(arg).type,
                         value |-> IF Fn(arg).type = "return" THEN onceValue' ELSE {}])
       ELSE /\ returned' = Append(returned, [arg |-> arg, type |-> "return", value |-> onceValue])
            /\ UNCHANGED <<ran, onceValue, fnCalls>>
  /\ UNCHANGED <<steps, stepsLabelIndexMap, stepOutcome, labelArgs, status, stack,
                 completion, calls, error, signal, callbackArgs, contextVars,
                 attemptVars, other, flight, shareCalls>>

(* ------------------------------- share -------------------------------- *)
(* g = share(fn), fn asynchronous.  A call of g that finds `flight` falsy  *)
(* invokes fn and is suspended in `await fn(...).finally(...)`; when the   *)
(* promise of fn settles the finally callback clears flight, and in a      *)
(* later turn of the event loop the call resumes: it stores the value in   *)
(* flight and returns it, or rejects.  A call that finds flight truthy     *)
(* returns it at once.                                                     *)

\* what fn resolves with; 0 is falsy
ShareValues == {0, 1, 2}

Truthy(v) == v # 0

\* how the promise of fn settles
ShareOutcomes ==
  {[type |-> "return", value |-> {v}] : v \in ShareValues}
    \cup {[type |-> "throw", value |-> {}]}

\* `!flight`
FlightIsFalsy == \A v \in flight : ~Truthy(v)

\* a call of g up to its first suspension or its return
ShareCall ==
  /\ shareCalls' =
       Append(shareCalls,
              IF FlightIsFalsy
                THEN [invoked |-> TRUE, pc |-> "pending", type |-> "none", value |-> {}]
                ELSE [invoked |-> FALSE, pc |-> "done", type |-> "return", value |-> flight])
  /\ UNCHANGED <<steps, stepsLabelIndexMap, stepOutcome, labelArgs, status, stack,
                 completion, calls, error, signal, callbackArgs, contextVars,
                 attemptVars, other, ran, onceValue, fnCalls, returned, flight>>

\* the promise fn returned to call k settles: `.finally(() => (flight =
\* undefined))` runs
FnSettles(k, outcome) ==
  /\ shareCalls[k].pc = "pending"
  /\ flight' = {}
  /\ shareCalls' =
       [shareCalls EXCEPT ![k] =
          [invoked |-> TRUE, pc |-> "settled", type |-> outcome.type,
           value |-> outcome.value]]
  /\ UNCHANGED <<steps, stepsLabelIndexMap, stepOutcome, labelArgs, status, stack,
                 completion, calls, error, signal, callbackArgs, contextVars,
                 attemptVars, other, ran, onceValue, fnCalls, returned>>

\* call k resumes after its await: `flight = <value>; return flight`, or the
\* rejection leaves the call
ShareResumes(k) ==
  /\ shareCalls[k].pc = "settled"
  /\ flight' = IF shareCalls[k].type = "return" THEN shareCalls[k].value ELSE flight
  /\ shareCalls' = [shareCalls EXCEPT ![k].pc = "done"]
  /\ UNCHANGED <<steps, stepsLabelIndexMap, stepOutcome, labelArgs, status, stack,
                 completion, calls, error, signal, callbackArgs, contextVars,
                 attemptVars, other, ran, onceValue, fnCalls, returned>>

(* --------------------------- specifications --------------------------- *)

\* navigation by index, no labels, no cancellation token
Next ==
  \/ \E cb \in NavCallbacks : Len(steps) < MaxSteps /\ StepUnlabelled(cb)
  \/ Run("none")
  \/ Settle
  \/ Unwind
  \/ Finish

Spec == Init /\ [][Next]_vars

\* labelled steps and jump(label)
NextLabel ==
  \/ \E cb \in LabelCallbacks : Len(steps) < MaxSteps /\ StepUnlabelled(cb)
  \/ \E l \in Labels, cb \in LabelCallbacks : Len(steps) < MaxSteps /\ StepLabelled(l, cb)
  \/ Run("none")
  \/ Settle
  \/ Unwind
  \/ Finish

SpecLabel == Init /\ [][NextLabel]_vars

\* the callbacks of the test "skips steps", in any order and number
NextScenario ==
  \/ \E cb \in ScenarioCallbacks : Len(steps) < MaxScenarioSteps /\ StepUnlabelled(cb)
  \/ Run("none")
  \/ Settle
  \/ Unwind
  \/ Finish

SpecScenario == Init /\ [][NextScenario]_vars

\* runs that are given an AbortSignal, steps that abort it
NextCancel ==
  \/ \E cb \in CancelCallbacks : Len(steps) < MaxSteps /\ StepUnlabelled(cb)
  \/ \E sig \in Signals : Run(sig)
  \/ Settle
  \/ Unwind
  \/ Finish

SpecCancel == Init /\ [][NextCancel]_vars

\* new Sequence() or new Sequence(context), runs with and without
\* options.context
InitContext ==
  /\ steps = << >>
  /\ stepsLabelIndexMap = [l \in Labels |-> {}]
  /\ stepOutcome = "none"
  /\ labelArgs = << >>
  /\ status = "idle"
  /\ stack = << >>
  /\ completion = Pending
  /\ calls = << >>
  /\ error = NoError
  /\ signal = "none"
  /\ callbackArgs = << >>
  /\ context \in {{}, {"ctor"}}
  /\ heap = [o \in Objects |-> << >>]
  /\ override = {}
  /\ runContext = {}
  /\ result = {}
  /\ attemptArgs = NoArgs
  /\ attemptOutcome = NoOutcome
  /\ promise = NoPromise
  /\ other = NoRun
  /\ ran = FALSE
  /\ onceValue = {}
  /\ fnCalls = << >>
  /\ returned = << >>
  /\ flight = {}
  /\ shareCalls = << >>

NextContext ==
  \/ \E cb \in ContextCallbacks : Len(steps) < MaxSteps /\ StepUnlabelled(cb)
  \/ \E ctx \in {{}, {"override"}} :
       /\ \A o \in RunContext(ctx) : Len(heap[o]) <= MaxMutations
       /\ RunWith("none", ctx)
  \/ Settle
  \/ Unwind
  \/ Finish

SpecContext == InitContext /\ [][NextContext]_vars

\* navigation by index and by label in one sequence
NextMixed ==
  \/ \E cb \in MixedCallbacks : Len(steps) < MaxMixedSteps /\ StepUnlabelled(cb)
  \/ \E l \in Labels, cb \in MixedCallbacks :
       Len(steps) < MaxMixedSteps /\ StepLabelled(l, cb)
  \/ Run("none")
  \/ Settle
  \/ Unwind
  \/ Finish

SpecMixed == Init /\ [][NextMixed]_vars

\* two calls of run() on one Sequence that overlap in time
NextOverlap ==
  \/ \E cb \in ContextCallbacks :
       Len(steps) < MaxSteps /\ other.status = "idle" /\ StepUnlabelled(cb)
  \/ Run("none")
  \/ Settle
  \/ Unwind
  \/ Finish
  \/ Switch

SpecOverlap == Init /\ [][NextOverlap]_vars

\* calls of the function made by once(fn)
NextOnce ==
  \E arg \in OnceArgs : Len(returned) < MaxOnceCalls /\ OnceCall(arg)

SpecOnce == Init /\ [][NextOnce]_vars

\* calls of the function made by share(fn), overlapping or not
NextShare ==
  \/ Len(shareCalls) < MaxShareCalls /\ ShareCall
  \/ \E k \in 1..Len(shareCalls), outcome \in ShareOutcomes : FnSettles(k, outcome)
  \/ \E k \in 1..Len(shareCalls) : ShareResumes(k)

SpecShare == Init /\ [][NextShare]_vars

\* calls of attempt and attemptAsync
NextAttempt ==
  \/ \E cb \in Thunks, n \in Narrows : CallAttempt(cb, n)
  \/ \E cb \in Thunks, n \in Narrows : CallAttemptAsync(cb, n)
  \/ Adopt
  \/ PromiseSettles

SpecAttempt == Init /\ [][NextAttempt]_vars

TypeOK ==
  /\ status \in {"idle", "running", "resolved", "rejected"}
  /\ stepOutcome \in {"none", "returned", "threw"}
  /\ signal \in Signals
  /\ completion.type \in {"none", "return", "throw"}
  /\ \A k \in 1..Len(stack) : stack[k].pc \in {"step", "try", "catch"}
  /\ Len(calls) <= MaxCalls

\* the same steps, with the scheduling of the event loop: a settled promise
\* resumes the code that awaits it
FairSpec == Spec /\ WF_vars(Settle) /\ WF_vars(Unwind) /\ WF_vars(Finish)

(* ----------------------- vocabulary of the claims --------------------- *)

\* the callback behind the k-th step invocation of the current run
Invoked(k) == steps[calls[k] + 1]

\* the k-th invocation is the last one and its step has not settled yet
InFlight(k) ==
  /\ k = Len(calls)
  /\ status = "running"
  /\ stack # << >>
  /\ Top.pc = "step"
  /\ Top.index = calls[k]

\* the run ended, or is unwinding towards its end, without an error
EndsSuccessfully ==
  \/ status = "resolved" /\ error = NoError
  \/ status = "running" /\ completion = Returned

\* the run ended, or is unwinding towards its end, with error e
EndsWith(e) ==
  \/ status = "rejected" /\ error = e
  \/ status = "running" /\ completion = Threw(e)

Terminated == status \in {"resolved", "rejected"}

InOrder(n) == [k \in 1..n |-> k - 1]

IsPrefix(s, t) == Len(s) <= Len(t) /\ s = SubSeq(t, 1, Len(s))

NoNavigationNoThrow == \A i \in 1..Len(steps) : steps[i] = Returns

(* ------------------------------- C1 ----------------------------------- *)

\* C1 as stated: for every N, a run of N steps that only return invokes
\* steps 0..N-1 in order and ends resolved.
C1_AsStated ==
  (NoNavigationNoThrow /\ Terminated)
    => (status = "resolved" /\ calls = InOrder(Len(steps)))

C1_Safe ==
  (Len(steps) >= 1 /\ NoNavigationNoThrow /\ status # "idle")
    => /\ status # "rejected"
       /\ IsPrefix(calls, InOrder(Len(steps)))
       /\ completion.type # "throw"
       /\ status = "resolved" => calls = InOrder(Len(steps))

\* C1 (amended): for N >= 1 registered steps that neither navigate nor throw,
\* run() invokes steps 0, 1, ..., N-1 once each in that order and nothing
\* else, never fails, and once started it ends resolved.
C1_RunsInOrder ==
  /\ []C1_Safe
  /\ (Len(steps) >= 1 /\ NoNavigationNoThrow /\ status = "running")
       ~> (status = "resolved" /\ calls = InOrder(Len(steps)))

C1_Witness ==
  /\ Len(steps) = MaxSteps
  /\ NoNavigationNoThrow
  /\ status = "resolved"
  /\ calls = InOrder(MaxSteps)

(* ------------------------------- C2 ----------------------------------- *)

\* C2: a step that calls stop() is the last step the run invokes, and once
\* it has settled the run ends successfully, whatever led to that step.
C2_StopTerminates ==
  \A k \in 1..Len(calls) :
    Invoked(k).op = "stop"
      => /\ k = Len(calls)
         /\ InFlight(k) \/ EndsSuccessfully

\* stop() reached by a jump, with later steps left uninvoked
C2_Witness ==
  /\ status = "resolved"
  /\ Len(calls) >= 2
  /\ Invoked(Len(calls)).op = "stop"
  /\ Invoked(Len(calls) - 1).op = "jump"
  /\ calls[Len(calls)] + 1 < Len(steps)

(* ------------------------------- C3 ----------------------------------- *)

\* C3: after step i called skip(), the next step invoked is i+1 when it
\* exists; when i is the last step no step follows and the run ends
\* successfully.
C3_SkipRunsNext ==
  \A k \in 1..Len(calls) :
    Invoked(k).op = "skip"
      => IF calls[k] + 1 < Len(steps)
           THEN InFlight(k) \/ (k < Len(calls) /\ calls[k + 1] = calls[k] + 1)
           ELSE /\ k = Len(calls)
                /\ InFlight(k) \/ EndsSuccessfully

\* three steps that all skip: 0 -> 1 -> 2 -> natural end
C3_Witness ==
  /\ steps = <<CallsSkip, CallsSkip, CallsSkip>>
  /\ calls = <<0, 1, 2>>
  /\ status = "resolved"

(* ------------------------------- C4 ----------------------------------- *)

\* C4: after step i > 0 called back(), the next step invoked is i-1.
C4_BackRunsPrevious ==
  \A k \in 1..Len(calls) :
    (Invoked(k).op = "back" /\ calls[k] > 0)
      => InFlight(k) \/ (k < Len(calls) /\ calls[k + 1] = calls[k] - 1)

C4_Witness ==
  \E k \in 1..(Len(calls) - 1) :
    /\ Invoked(k).op = "back"
    /\ calls[k] = 2
    /\ calls[k + 1] = 1

(* ------------------------------- C5 ----------------------------------- *)

\* C5: after a step called jump(-1), the next step invoked is the last
\* registered one, index N-1, wherever the caller stands.
C5_JumpMinusOneRunsLast ==
  \A k \in 1..Len(calls) :
    (Invoked(k).op = "jump" /\ Invoked(k).to = -1)
      => InFlight(k) \/ (k < Len(calls) /\ calls[k + 1] = Len(steps) - 1)

\* jump(-1) from the first and from the last of three steps
C5_Witness ==
  /\ Len(steps) = 3
  /\ steps[1] = CallsJump(-1)
  /\ steps[3] = CallsJump(-1)
  /\ Len(calls) >= 3
  /\ calls[1] = 0 /\ calls[2] = 2 /\ calls[3] = 2

(* ------------------------------- C6 ----------------------------------- *)

WasRegistered(label) == \E i \in 1..Len(labelArgs) : labelArgs[i] = {label}

\* index of the first step() call that was given the label
RegisteredAt(label) ==
  (CHOOSE i \in 1..Len(labelArgs) :
     /\ labelArgs[i] = {label}
     /\ \A j \in 1..(i - 1) : labelArgs[j] # {label}) - 1

\* C6: after a step called jump(label) with a registered label, the next
\* step invoked is the one registered under the label; nothing is invoked
\* in between.
C6_JumpLabelRunsLabelled ==
  \A k \in 1..Len(calls) :
    (Invoked(k).op = "jumpLabel" /\ WasRegistered(Invoked(k).label))
      => \/ InFlight(k)
         \/ k < Len(calls) /\ calls[k + 1] = RegisteredAt(Invoked(k).label)

\* test "labelled steps": start jumps to stop, the step in between never runs
C6_Witness ==
  /\ steps = <<CallsJumpLabel("stop"), Throws, CallsStop>>
  /\ labelArgs = <<{"start"}, {}, {"stop"}>>
  /\ calls = <<0, 2>>
  /\ status = "resolved"

(* ------------------------------- C7 ----------------------------------- *)

\* the steps of the test "skips steps"
SkipsSteps == <<CallsSkip, CallsJump(-1), Throws, CallsStop, CallsBack>>

\* C7 as stated: the run invokes exactly A, B, D and resolves.
C7_AsStated ==
  (steps = SkipsSteps /\ Terminated)
    => (status = "resolved" /\ calls = <<0, 1, 3>>)

\* C7 (amended): the run invokes A, B, E, D in that order and resolves: B's
\* jump(-1) reaches the last step E, whose back() reaches D, which stops.
\* C is never invoked.
C7_SkipsStepsOrder ==
  (steps = SkipsSteps /\ status # "idle")
    => /\ IsPrefix(calls, <<0, 1, 4, 3>>)
       /\ status # "rejected"
       /\ completion.type # "throw"
       /\ status = "resolved" => calls = <<0, 1, 4, 3>>

C7_Witness ==
  /\ steps = SkipsSteps
  /\ status = "resolved"
  /\ calls = <<0, 1, 4, 3>>

(* ------------------------------- C8 ----------------------------------- *)

\* C8: a run started with an already aborted signal invokes no step and
\* ends successfully (stated for a sequence that has a step to invoke).
C8_AbortedBeforeRun ==
  [][(status # "running" /\ status' = "running" /\ signal' = "aborted"
        /\ Len(steps) >= 1)
       => (calls' = << >> /\ stack' = << >> /\ completion' = Returned)]_vars

(* ------------------------------- C9 ----------------------------------- *)

\* C9: when the signal becomes aborted while a step is executing, that step
\* finishes, no step is dispatched after it and the run ends successfully.
C9_AbortedDuringStep ==
  [][(status = "running" /\ signal = "live" /\ signal' = "aborted")
       => (calls' = calls /\ completion' = Returned)]_vars

(* ------------------------------- C10 ---------------------------------- *)

\* C10: a step that throws an ordinary error is the last step the run
\* invokes, and the run rejects with exactly that error.
C10_StepErrorPropagates ==
  \A k \in 1..Len(calls) :
    Invoked(k).op = "throw"
      => /\ k = Len(calls)
         /\ InFlight(k) \/ EndsWith(StepError(calls[k]))

\* the throwing step is reached by a jump followed by a sequential advance
C10_Witness ==
  /\ steps = <<CallsJump(1), Returns, Throws>>
  /\ calls = <<0, 1, 2>>
  /\ status = "rejected"
  /\ error = StepError(2)

(* ------------------------------- C11 ---------------------------------- *)

\* C11: a step that calls jump(label) with a label no step() call ever used
\* is the last step the run invokes, and the run rejects with the ordinary
\* error "No step function found with label".
C11_UnknownLabelRejects ==
  \A k \in 1..Len(calls) :
    (Invoked(k).op = "jumpLabel" /\ ~WasRegistered(Invoked(k).label))
      => /\ k = Len(calls)
         /\ InFlight(k) \/ EndsWith(NoStepWithLabelError(Invoked(k).label))

\* the second of three steps jumps to a label nobody registered
C11_Witness ==
  /\ Len(steps) = 3
  /\ steps[2] = CallsJumpLabel("stop")
  /\ ~WasRegistered("stop")
  /\ calls = <<0, 1>>
  /\ status = "rejected"
  /\ error = NoStepWithLabelError("stop")

(* ------------------------------- C12 ---------------------------------- *)

\* the last step() call was given a label that an earlier call had used
LastStepCallDuplicates ==
  /\ Len(labelArgs) >= 2
  /\ labelArgs[Len(labelArgs)] # {}
  /\ \E j \in 1..(Len(labelArgs) - 1) : labelArgs[j] = labelArgs[Len(labelArgs)]

\* C12: a step() call with a label that is already registered throws, and
\* every label keeps resolving to the first step registered under it.
C12_DuplicateLabelFails ==
  /\ LastStepCallDuplicates => stepOutcome = "threw"
  /\ \A l \in Labels :
       WasRegistered(l) => stepsLabelIndexMap[l] = {RegisteredAt(l)}

C12_Witness ==
  /\ labelArgs = <<{"start"}, {}, {"start"}>>
  /\ stepOutcome = "threw"
  /\ stepsLabelIndexMap["start"] = {0}

(* ------------------------------- C13 ---------------------------------- *)

\* C13: a step() call that fails because of a duplicate label leaves the
\* step list as it was.
C13_FailedStepKeepsRegistry ==
  [][(Len(labelArgs') = Len(labelArgs) + 1 /\ stepOutcome' = "threw")
       => (steps' = steps /\ stepsLabelIndexMap' = stepsLabelIndexMap)]_vars

(* ------------------------------- C14 ---------------------------------- *)

IsSuffix(s, t) ==
  Len(s) <= Len(t) /\ s = SubSeq(t, Len(t) - Len(s) + 1, Len(t))

\* C14: a run of a Sequence that carries a context writes to that context
\* object, in order of invocation, the index of every step it invokes, and
\* when it resolves (natural end, stop() or skip() at the last step) it
\* resolves with that object.
C14_ContextReflectsRun ==
  (status # "idle" /\ context # {} /\ override = {})
    => /\ \A o \in context : IsSuffix(calls, heap[o])
       /\ status = "resolved" => result = context

\* a second run over the same context that ends with stop()
C14_Witness ==
  /\ context = {"ctor"}
  /\ override = {}
  /\ steps = <<CallsSkip, CallsStop, Returns>>
  /\ status = "resolved"
  /\ result = {"ctor"}
  /\ heap["ctor"] = <<0, 1, 0, 1>>

(* ------------------------------- C15 ---------------------------------- *)

C15_Safe ==
  /\ (status # "idle" /\ override # {})
       => /\ runContext = override
          /\ \A o \in override : IsSuffix(calls, heap[o])
          /\ status = "resolved" => result = override
  /\ (status # "idle" /\ override = {}) => runContext = context

\* C15: run({context: c}) hands c to every step and resolves with c; the
\* context of the constructor is not written to during that run and is not
\* replaced, and a run without options.context uses it again.
C15_OverrideIsPerRun ==
  /\ []C15_Safe
  /\ [][/\ context' = context
        /\ override' # {} => \A o \in context : heap'[o] = heap[o]]_vars

\* a run on the constructor's context that follows a run with an override
C15_Witness ==
  /\ context = {"ctor"}
  /\ override = {}
  /\ status = "resolved"
  /\ result = {"ctor"}
  /\ Len(steps) = 2
  /\ heap["override"] = <<0, 1>>
  /\ heap["ctor"] = <<0, 1>>

(* ------------------------------- C16 ---------------------------------- *)

C16_Safe ==
  /\ Len(steps) = Len(callbackArgs)
  /\ \A k \in 1..Len(callbackArgs) : steps[k] = callbackArgs[k]
  /\ \A l \in Labels :
       WasRegistered(l)
         => /\ stepsLabelIndexMap[l] = {RegisteredAt(l)}
            /\ \A i \in stepsLabelIndexMap[l] :
                 steps[i + 1] = callbackArgs[RegisteredAt(l) + 1]

\* C16: the k-th step() call (0-based, labelled or not) puts its callback at
\* index k, a registered label maps to the index of the callback it was
\* registered with, and later calls leave earlier indices and labels alone.
C16_SequentialIndices ==
  /\ []C16_Safe
  /\ [][/\ IsPrefix(steps, steps')
        /\ \A l \in Labels :
             stepsLabelIndexMap[l] # {} => stepsLabelIndexMap'[l] = stepsLabelIndexMap[l]]_vars

\* an unlabelled step followed by two labelled ones
C16_Witness ==
  /\ labelArgs = <<{}, {"stop"}, {"start"}>>
  /\ steps = <<Returns, CallsStop, CallsJumpLabel("stop")>>
  /\ stepsLabelIndexMap["stop"] = {1}
  /\ stepsLabelIndexMap["start"] = {2}

(* ------------------------------- C17 ---------------------------------- *)

\* C17: a step that calls jump(n) with n other than -1 and outside 0..N-1 is
\* the last step the run invokes, and the run rejects with "No step function
\* found at index n".
C17_JumpOutsideRejects ==
  \A k \in 1..Len(calls) :
    (/\ Invoked(k).op = "jump"
     /\ Invoked(k).to # -1
     /\ Invoked(k).to \notin 0..(Len(steps) - 1))
      => /\ k = Len(calls)
         /\ InFlight(k) \/ EndsWith(NoStepAtIndexError(Invoked(k).to))

\* jump(-2) from the second of three steps
C17_Witness ==
  /\ steps = <<Returns, CallsJump(-2), Returns>>
  /\ calls = <<0, 1>>
  /\ status = "rejected"
  /\ error = NoStepAtIndexError(-2)

(* ------------------------------- C18 ---------------------------------- *)

C19_AttemptAsyncNeverThrows ==
  (attemptArgs.fn = "attemptAsync" /\ attemptArgs.narrow # "throws")
    => /\ attemptOutcome.type = "return"
       /\ promise.state \in {"pending", "fulfilled"}
       /\ promise.state = "fulfilled"
            => promise.attempt.success
                 = (attemptArgs.callback.value.settles # "reject")

(* ------------------------------- C20 ---------------------------------- *)

\* C20: the statement that follows a call of stop(), skip(), back() or
\* jump() in a step never runs: the Error thrown there by the steps of the
\* tests never ends a run.
C20_NothingAfterNavigation ==
  \A i \in 0..(Len(steps) - 1) :
    steps[i + 1].op \in NavigationOps => ~EndsWith(StepError(i))

\* skip(), jump(-1) and stop(), each followed by a throw, and the run resolves
C20_Witness ==
  /\ steps = <<CallsSkip, CallsJump(-1), CallsStop>>
  /\ calls = <<0, 1, 2>>
  /\ status = "resolved"
  /\ error = NoError

(* ------------------------------- C21 ---------------------------------- *)

\* the frames suspended in `await stepFunction(stepContext)`
StepsInFlight == {k \in 1..Len(stack) : stack[k].pc = "step"}

C21_Safe ==
  /\ Cardinality(StepsInFlight) <= 1
  /\ StepsInFlight # {}
       => /\ StepsInFlight = {Len(stack)}
          /\ completion = Pending
          /\ calls # << >>
          /\ Top.index = calls[Len(calls)]

\* C21: at most one step of a run is in flight, it is the step invoked last
\* and the innermost frame awaits it; a step is invoked (after an advance,
\* skip, back or jump) only by a transition in which the step invoked before
\* it has settled.
C21_OneStepInFlight ==
  /\ []C21_Safe
  /\ [][(status = "running" /\ Len(calls') = Len(calls) + 1)
          => /\ StepsInFlight' = {Len(stack')}
             /\ \A k \in StepsInFlight : stack'[k].pc # "step"]_vars

\* skip() then back(): the third invocation is in flight, two frames wait
C21_Witness ==
  /\ Len(calls) = 3
  /\ InFlight(3)
  /\ Invoked(1).op = "skip"
  /\ Invoked(2).op = "back"
  /\ Len(stack) = 3

(* ------------------------------- C22 ---------------------------------- *)

\* the step at index i navigates only to places that exist: stop(), skip(),
\* back() from an index above 0, jump(-1), jump(k) with k an index, and
\* jump(label) with a registered label
CorrectUse(i) ==
  LET cb == steps[i + 1] IN
    /\ cb.op \in {"return"} \cup NavigationOps
    /\ cb.op = "back" => i > 0
    /\ cb.op = "jump" => (cb.to = -1 \/ cb.to \in 0..(Len(steps) - 1))
    /\ cb.op = "jumpLabel" => WasRegistered(cb.label)

StepNotFound(e) == e.message = "No step function found at index"

\* C22: while every step a run has invoked navigates only to places that
\* exist, every index the run dispatches is one of 0..N-1 and the error "No
\* step function found at index" is not raised.
C22_NoStepNotFound ==
  (/\ Len(steps) >= 1
   /\ status # "idle"
   /\ \A k \in 1..Len(calls) : CorrectUse(calls[k]))
    => /\ \A k \in 1..Len(calls) : calls[k] \in 0..(Len(steps) - 1)
       /\ ~StepNotFound(completion.error)
       /\ ~StepNotFound(error)

\* jump(label) forwards and back() backwards, twice around
C22_Witness ==
  /\ steps = <<CallsJumpLabel("stop"), CallsBack>>
  /\ labelArgs = <<{}, {"stop"}>>
  /\ calls = <<0, 1, 0, 1>>
  /\ status = "running"

(* ------------------------------- C23 ---------------------------------- *)

\* The iterative dispatcher: a loop over one current index that makes at
\* most `fuel` step invocations.  It ends (completion Returned or Threw) or
\* runs out of fuel (completion Pending); calls are the indices it invoked.
RECURSIVE Iterative(_, _, _)
Iterative(index, invoked, fuel) ==
  IF StepFunction(index) = {}
    THEN [calls |-> invoked, completion |-> Threw(NoStepAtIndexError(index))]
  ELSE IF fuel = 0
    THEN [calls |-> invoked, completion |-> Pending]
  ELSE
    LET c == StepSettles(index, steps[index + 1])
        done == Append(invoked, index)
    IN  IF c.type = "return"
          THEN IF index + 1 = Len(steps)
                 THEN [calls |-> done, completion |-> Returned]
                 ELSE Iterative(index + 1, done, fuel - 1)
        ELSE IF c.error.name = "SequenceStopError"
          THEN [calls |-> done, completion |-> Returned]
        ELSE IF c.error.name = "SequenceJumpError"
          THEN IF c.error.to = {}
                 THEN [calls |-> done, completion |-> Returned]
                 ELSE Iterative(CHOOSE i \in c.error.to : TRUE, done, fuel - 1)
        ELSE [calls |-> done, completion |-> c]

\* how the run of the recursive dispatcher ended, or is ending
Outcome ==
  IF status = "resolved" THEN Returned
  ELSE IF status = "rejected" THEN Threw(error)
  ELSE completion

C23_Safe ==
  status # "idle"
    => LET loop == Iterative(0, << >>, Len(calls)) IN
         IF Outcome = Pending
           THEN IsPrefix(calls, loop.calls)
           ELSE calls = loop.calls /\ Outcome = loop.completion

\* C23: runStep and the loop over a current index invoke the same steps in
\* the same order and end the same way (resolve, or reject with the same
\* error); once an inner runStep has finished, the frames that await it
\* invoke no further step and hand its outcome on unchanged.
C23_RecursionIsIteration ==
  /\ []C23_Safe
  /\ [][(status = "running" /\ completion # Pending)
          => (calls' = calls /\ Outcome' = Outcome)]_vars

\* a jump, a back() and a throw: the error of the innermost frame is on its
\* way out through the two frames that wait for it
C23_Witness ==
  /\ steps = <<CallsJump(2), Throws, CallsBack>>
  /\ calls = <<0, 2, 1>>
  /\ status = "running"
  /\ Len(stack) = 1
  /\ completion = Threw(StepError(1))

(* ------------------------------- C24 ---------------------------------- *)

\* the run has come back to an index it invoked before: its steps form a
\* cycle
Revisits == \E j, k \in 1..Len(calls) : j < k /\ calls[j] = calls[k]

\* a step of the run has called abort() on the controller
AbortCalled == \E k \in 1..Len(calls) : Invoked(k).op = "abort"

\* C24: in a cyclic run whose signal a step has aborted, the step in flight
\* is the last one: when it settles no step is dispatched and the run ends
\* successfully.
C24_CancelEndsCycle ==
  [][(/\ status = "running"
      /\ signal = "aborted"
      /\ AbortCalled
      /\ Revisits
      /\ completion = Pending)
       => (calls' = calls /\ completion' = Returned)]_vars

(* ------------------------------- C25 ---------------------------------- *)

\* step j hands over to step j+1, which calls back()
BackAndForth(j) ==
  /\ j + 1 < Len(steps)
  /\ steps[j + 1].op \in {"return", "skip"}
  /\ steps[j + 2].op = "back"

\* C25: once a run has invoked a step j that hands over to a step j+1 that
\* calls back(), it invokes j, j+1, j, j+1, ... and nothing else, it never
\* ends, and the step in flight can always settle and dispatch the next one
\* (MaxCalls only bounds how far a run is followed).
C25_CycleNeverEnds ==
  \A k \in 1..Len(calls) :
    BackAndForth(calls[k])
      => /\ status = "running"
         /\ completion = Pending
         /\ \A m \in k..Len(calls) : calls[m] = calls[k] + ((m - k) % 2)
         /\ Len(calls) < MaxCalls => ENABLED Settle

\* step 0 skip(), step 1 back(), followed as far as runs are followed
C25_Witness ==
  /\ steps = <<CallsSkip, CallsBack>>
  /\ Len(calls) = MaxCalls
  /\ calls[MaxCalls] = (MaxCalls - 1) % 2
  /\ status = "running"

(* ------------------------------- C26 ---------------------------------- *)

\* no step calls back(), and every jump(n) goes to an index above the
\* calling step (jump(-1) from the last step does not)
AllForward ==
  \A i \in 0..(Len(steps) - 1) :
    /\ steps[i + 1].op # "back"
    /\ steps[i + 1].op = "jump" => JumpIndex(steps[i + 1].to) > i

C26_Safe ==
  AllForward
    => /\ \A j, k \in 1..Len(calls) : j < k => calls[j] < calls[k]
       /\ Len(calls) <= Len(steps)

\* C26: when every navigation moves strictly forward, a run invokes steps in
\* strictly increasing order of index (so no step twice and at most N
\* invocations), and once started it terminates.
C26_ForwardTerminates ==
  /\ []C26_Safe
  /\ (AllForward /\ status = "running") ~> Terminated

\* a forward jump over a step, then skip() at the last step
C26_Witness ==
  /\ steps = <<CallsJump(2), Returns, CallsSkip>>
  /\ calls = <<0, 2>>
  /\ status = "resolved"

(* ------------------------------- C27 ---------------------------------- *)

\* log is run, written down zero or more times in a row
IsRepetition(log, run) ==
  IF run = << >> THEN log = << >>
  ELSE /\ Len(log) % Len(run) = 0
       /\ \A i \in 1..Len(log) : log[i] = run[((i - 1) % Len(run)) + 1]

\* The steps write their index to the context they are given, so a context
\* object holds the invocations of every run that used it.
C27_Safe ==
  /\ Terminated => \A o \in Objects : IsRepetition(heap[o], calls)
  /\ status = "running" => \A o \in runContext : IsSuffix(calls, heap[o])

\* C27: every run() starts at index 0, however the run before it ended; all
\* runs of a sequence invoke the same steps in the same order; a run changes
\* nothing of the Sequence: not the step list, not the label map, not the
\* context it was constructed with.
C27_RunsAreIndependent ==
  /\ []C27_Safe
  /\ [][(status # "running" /\ status' = "running" /\ Len(steps) >= 1)
          => (calls' = <<0>> /\ stack' = <<Frame(0, "step")>>)]_vars
  /\ [][(status = "running" \/ status' = "running")
          => /\ steps' = steps
             /\ stepsLabelIndexMap' = stepsLabelIndexMap
             /\ context' = context]_vars

\* a run that was rejected at step 1, and a second run that did the same
C27_Witness ==
  /\ steps = <<Returns, Throws>>
  /\ context = {"ctor"}
  /\ heap["ctor"] = <<0, 1, 0, 1>>
  /\ calls = <<0, 1>>
  /\ status = "rejected"
  /\ error = StepError(1)

(* ------------------------------- C28 ---------------------------------- *)

\* C28: when step 0 calls back(), it is the last step the run invokes and
\* the run rejects with "No step function found at index -1".
C28_BackFromFirstRejects ==
  \A k \in 1..Len(calls) :
    (Invoked(k).op = "back" /\ calls[k] = 0)
      => /\ k = Len(calls)
         /\ InFlight(k) \/ EndsWith(NoStepAtIndexError(-1))

\* the first of three steps calls back(): the last step is not invoked
C28_Witness ==
  /\ Len(steps) = 3
  /\ steps[1] = CallsBack
  /\ calls = <<0>>
  /\ status = "rejected"
  /\ error = NoStepAtIndexError(-1)

(* ------------------------------- C29 ---------------------------------- *)

\* C29: a run of a Sequence without steps invokes nothing and rejects with
\* "No step function found at index 0"; it does not resolve.
C29_EmptySequenceRejects ==
  (steps = << >> /\ status # "idle")
    => /\ calls = << >>
       /\ EndsWith(NoStepAtIndexError(0))
       /\ result = {}

C29_Witness ==
  /\ steps = << >>
  /\ status = "rejected"
  /\ error = NoStepAtIndexError(0)
  /\ result = {}

(* ------------------------------- C30 ---------------------------------- *)

\* how the call of run() whose state is `run` ended, or is ending
OutcomeOf(run) ==
  IF run.status = "resolved" THEN Returned
  ELSE IF run.status = "rejected" THEN Threw(run.error)
  ELSE run.completion

\* the call of run() has invoked what a run on its own invokes, and if it
\* ended it ended as a run on its own ends
AsAlone(run) ==
  run.status # "idle"
    => LET loop == Iterative(0, << >>, Len(run.calls)) IN
         IF OutcomeOf(run) = Pending
           THEN IsPrefix(run.calls, loop.calls)
           ELSE run.calls = loop.calls /\ OutcomeOf(run) = loop.completion

C30_Safe == AsAlone(ThisRun) /\ AsAlone(other)

\* C30: of two calls of run() that overlap in time, each invokes the steps a
\* run on its own invokes, in the same order, and ends the same way; a
\* transition of one call leaves the position of the other untouched, and
\* running changes neither the step list nor the label map.
C30_OverlappingRuns ==
  /\ []C30_Safe
  /\ [][other' = other \/ (other' = ThisRun /\ ThisRun' = other)]_vars
  /\ [][(status = "running" \/ other.status = "running")
          => (steps' = steps /\ stepsLabelIndexMap' = stepsLabelIndexMap)]_vars

\* one call of run() is suspended in step 0 while the other has gone on to
\* step 2
C30_Witness ==
  /\ steps = <<Returns, CallsSkip, CallsBack>>
  /\ status = "running"
  /\ calls = <<0, 1, 2>>
  /\ other.status = "running"
  /\ other.calls = <<0>>
  /\ other.stack = <<Frame(0, "step")>>

(* ------------------------------- C31 ---------------------------------- *)

\* C31: over any calls of f = once(fn), fn is invoked at most once, by the
\* first call and with its arguments, also when that invocation throws; if
\* the first call returned, every later call returns the same value,
\* whatever its own arguments.
C31_OnceInvokesOnce ==
  /\ Len(fnCalls) <= 1
  /\ returned # << >> => fnCalls = <<returned[1].arg>>
  /\ (returned # << >> /\ returned[1].type = "return")
       => \A k \in 2..Len(returned) :
            /\ returned[k].type = "return"
            /\ returned[k].value = returned[1].value

\* f(2), then f(1), then f(0) with the argument that makes fn throw: all
\* return 2
C31_Witness ==
  /\ Len(returned) = 3
  /\ returned[1] = [arg |-> 2, type |-> "return", value |-> {2}]
  /\ returned[2] = [arg |-> 1, type |-> "return", value |-> {2}]
  /\ returned[3] = [arg |-> 0, type |-> "return", value |-> {2}]
  /\ fnCalls = <<2>>

(* ------------------------------- C32 ---------------------------------- *)

\* some call of g has resolved with a truthy value
ResolvedTruthy ==
  \E j \in 1..Len(shareCalls) :
    /\ shareCalls[j].pc = "done"
    /\ shareCalls[j].type = "return"
    /\ \E v \in shareCalls[j].value : Truthy(v)

\* C32: a call of g = share(fn) invokes fn exactly when, at the moment it
\* starts, no earlier call of g has resolved with a truthy value.
C32_InvokesUntilResolved ==
  [][Len(shareCalls') = Len(shareCalls) + 1
       => (shareCalls'[Len(shareCalls')].invoked <=> ~ResolvedTruthy)]_vars

====
